---- MODULE Spec2Model ----
(***************************************************************************)
(* Setlist2YTMusic: the match-and-budget engine.                           *)
(*                                                                         *)
(* One run of process_playlist_creation (main.py) over a setlist, with the *)
(* YouTubeClient it constructs (youtube_client.py) and that client's       *)
(* VideoCache (video_cache.py).  Text is a sequence of one-character       *)
(* strings, so that lower(), strip() and the f-strings of the source are   *)
(* computed rather than assumed.  Time is counted in hours.                *)
(*                                                                         *)
(* Spec is that run; SpecLedger is the client's quota ledger on its own;   *)
(* SpecPlanner is the run in preview over songs with unusual credits;      *)
(* SpecMain is main() around the run: its own client, --clear-cache, the   *)
(* report, damaged cache files and Ctrl-C; SpecFair is the run followed to *)
(* its end, every enabled statement eventually executed.                   *)
(***************************************************************************)
EXTENDS Integers, Sequences, FiniteSets, TLC

VARIABLES
    setlist,           \* setlist.tracks: the Track objects, by name
    dry_run,           \* the dry_run argument of process_playlist_creation
    now,               \* datetime.now(), in hours
    file,              \* the content of video_cache.json
    cache,             \* VideoCache.cache: key -> CacheEntry
    quota_used,        \* YouTubeClient.quota_used
    playlist_id,       \* the local playlist_id
    pc,                \* where process_playlist_creation stands
    i,                 \* the loop index of enumerate(setlist.tracks, 1)
    qi,                \* the position of find_best_match in its query list
    video_id,          \* what find_best_match returned
    issued,            \* history: the queries find_best_match has sent for song i
    found_tracks,      \* the list found_tracks (positions in the setlist)
    not_found_tracks,  \* the list not_found_tracks (positions in the setlist)
    searchCalls,       \* history: search requests sent to the provider
    addCalls,          \* history: playlistItems.insert requests sent
    touched,           \* history: the songs for which a request or a cache write was made
    outcome,           \* history: how the last external request ended
    failures,          \* history: the external requests that raised so far
    probe,             \* history: the last check_quota_limit call made on the bare client
    main_cache,        \* the VideoCache.cache of the YouTubeClient that main() constructs
    main_quota_used,   \* the quota_used of the YouTubeClient that main() constructs
    shown,             \* what display_results printed of get_quota_usage()
    saves              \* history: the completed save_cache() calls: (cause, key, video id)

vars == << setlist, dry_run, now, file, cache, quota_used, playlist_id, pc, i, qi,
           video_id, issued, found_tracks, not_found_tracks, searchCalls, addCalls,
           touched, outcome, failures, probe, main_cache, main_quota_used, shown,
           saves >>

(***************************************************************************)
(* Bounds of the model.                                                    *)
(***************************************************************************)
\* The long setlists open with LongLen performances of a song no video exists for,
\* followed by one or two further songs.
LongLen == 23
\* The planner runs (SpecPlanner) take every choice of at most MaxShort songs.
MaxShort == 2
\* How many hours the clock advances during a run.
MaxTicks == 1
\* How many external requests raise during a run.
MaxFailures == 1
\* How many requests the bare client is charged for (the specification SpecLedger).
MaxLedgerCalls == 100

(***************************************************************************)
(* Constants of the program.                                               *)
(***************************************************************************)
\* search_video: self.quota_used += 100
SearchCost == 100
\* add_video_to_playlist: self.quota_used += 50
AddCost == 50
\* check_quota_limit: total_quota < 9500
QuotaThreshold == 9500
\* process_playlist_creation: check_quota_limit(150)
PerTrackQuota == 150
\* get_quota_usage: 10000 - self.quota_used
DailyLimit == 10000
\* VideoCache.get: timedelta(days=7), in hours
CacheTTL == 168
\* VideoCache.get_stats: timedelta(days=1), in hours
RecentHours == 24

(***************************************************************************)
(* Text.                                                                   *)
(***************************************************************************)
UpperChars == << "A", "B", "C", "D", "E", "F", "G", "H", "I", "J", "K", "L", "M",
                 "N", "O", "P", "Q", "R", "S", "T", "U", "V", "W", "X", "Y", "Z" >>
LowerChars == << "a", "b", "c", "d", "e", "f", "g", "h", "i", "j", "k", "l", "m",
                 "n", "o", "p", "q", "r", "s", "t", "u", "v", "w", "x", "y", "z" >>
Whitespace == { " ", "\t", "\n" }

\* str.lower(), one character
lowerChar(c) ==
    IF \E k \in 1..Len(UpperChars) : UpperChars[k] = c
    THEN LowerChars[CHOOSE k \in 1..Len(UpperChars) : UpperChars[k] = c]
    ELSE c

\* str.lower()
lower(s) == [k \in 1..Len(s) |-> lowerChar(s[k])]

\* str.strip()
strip(s) ==
    LET inner == { k \in 1..Len(s) : s[k] \notin Whitespace }
    IN  IF inner = {} THEN << >>
        ELSE LET first == CHOOSE k \in inner : \A m \in inner : k <= m
                 last  == CHOOSE k \in inner : \A m \in inner : m <= k
             IN  SubSeq(s, first, last)

(***************************************************************************)
(* setlist_parser.Track.  original_artist = None is the empty text: the    *)
(* source only ever tests its truth value.                                 *)
(***************************************************************************)
NoText == << >>

ShowArtist == << "X" >>

Track(id) ==
    CASE id = "A" -> [ title |-> << "A", "n", "t", "h", "e", "m" >>,
                       artist |-> ShowArtist,
                       original_artist |-> NoText, is_cover |-> FALSE ]
      [] id = "B" -> [ title |-> << "H", "a", "l", "l", "e", "l", "u", "j", "a", "h" >>,
                       artist |-> ShowArtist,
                       original_artist |-> << "L", "e", "o", "n", "a", "r", "d", " ",
                                              "C", "o", "h", "e", "n" >>,
                       is_cover |-> TRUE ]
      [] id = "C" -> [ title |-> << "Z", "o", "o" >>,
                       artist |-> ShowArtist,
                       original_artist |-> << "U", "2" >>, is_cover |-> TRUE ]
      [] id = "D" -> [ title |-> << " ", "a", "n", "t", "h", "e", "m" >>,
                       artist |-> ShowArtist,
                       original_artist |-> NoText, is_cover |-> TRUE ]
      [] id = "E" -> [ title |-> << "E", "c", "h", "o" >>,
                       artist |-> ShowArtist,
                       original_artist |-> ShowArtist, is_cover |-> TRUE ]
      [] id = "F" -> [ title |-> << "F", "i", "r", "e" >>,
                       artist |-> << "o", "f", "f", "i", "c", "i", "a", "l" >>,
                       original_artist |-> NoText, is_cover |-> FALSE ]

TrackIds == { "A", "B", "C", "D" }

\* The track the loop is at.
track == Track(setlist[i])

(***************************************************************************)
(* YouTubeClient.build_search_queries                                      *)
(***************************************************************************)
\* A slip in build_search_queries: the performing artist tried first for a cover.
build_search_queries_performer_first(t) ==
    LET head == IF t.is_cover /\ t.original_artist # NoText
                THEN << t.title \o << " " >> \o t.artist,
                        t.title \o << " " >> \o t.original_artist,
                        t.title \o << " ", "-", " " >> \o t.original_artist >>
                ELSE << t.title \o << " " >> \o t.artist,
                        t.title \o << " ", "-", " " >> \o t.artist >>
    IN  Append(head, t.title \o << " ", "o", "f", "f", "i", "c", "i", "a", "l" >>)

\* A slip in build_search_queries: one more fallback, the bare title.
build_search_queries_bare_title(t) ==
    LET head == IF t.is_cover /\ t.original_artist # NoText
                THEN << t.title \o << " " >> \o t.original_artist,
                        t.title \o << " ", "-", " " >> \o t.original_artist,
                        t.title \o << " " >> \o t.artist >>
                ELSE << t.title \o << " " >> \o t.artist,
                        t.title \o << " ", "-", " " >> \o t.artist >>
    IN  head \o << t.title \o << " ", "o", "f", "f", "i", "c", "i", "a", "l" >>, t.title >>

build_search_queries(t) ==
    LET head == IF t.is_cover /\ t.original_artist # NoText
                THEN << t.title \o << " " >> \o t.original_artist,
                        t.title \o << " ", "-", " " >> \o t.original_artist,
                        t.title \o << " " >> \o t.artist >>
                ELSE << t.title \o << " " >> \o t.artist,
                        t.title \o << " ", "-", " " >> \o t.artist >>
    IN  Append(head, t.title \o << " ", "o", "f", "f", "i", "c", "i", "a", "l" >>)

(***************************************************************************)
(* video_cache.VideoCache                                                  *)
(***************************************************************************)
\* datetime.isoformat(): the text of a time.
isoformat(t) == << "iso", t >>

\* A timestamp text that datetime.fromisoformat rejects.
BadTimestamp == << "garbage", 0 >>

\* What fromisoformat gives when it raises ValueError.
ValueError == -1

\* datetime.fromisoformat()
fromisoformat(s) == IF s[1] = "iso" THEN s[2] ELSE ValueError

\* The dataclass CacheEntry.
CacheEntry(v, t, c, ts, q) ==
    [ video_id |-> v, title |-> t, channel |-> c, timestamp |-> ts, search_query |-> q ]

\* A slip in save_cache: title and channel written under each other's name.
to_json_swapped(entry) ==
    << << "video_id", entry.video_id >>,
       << "title", entry.channel >>,
       << "channel", entry.title >>,
       << "timestamp", entry.timestamp >>,
       << "search_query", entry.search_query >> >>

\* json.dump of one entry: the object save_cache builds, member by member.
to_json(entry) ==
    << << "video_id", entry.video_id >>,
       << "title", entry.title >>,
       << "channel", entry.channel >>,
       << "timestamp", entry.timestamp >>,
       << "search_query", entry.search_query >> >>

\* The member of a JSON object with the given name.
member(obj, name) == obj[CHOOSE k \in 1..Len(obj) : obj[k][1] = name][2]

\* CacheEntry(**entry_data)
from_json(obj) ==
    CacheEntry(member(obj, "video_id"), member(obj, "title"), member(obj, "channel"),
               member(obj, "timestamp"), member(obj, "search_query"))

\* No video_cache.json.  A file that exists has a top level: a JSON object
\* ("object", its members in data), another JSON value ("array"), or text that
\* is not JSON ("invalid").
NoFile == [ exists |-> FALSE, top |-> "none", data |-> << >> ]

\* VideoCache.save_cache: the file written from the mapping c.
save_cache(c) ==
    [ exists |-> TRUE, top |-> "object", data |-> [ k \in DOMAIN c |-> to_json(c[k]) ] ]

\* The keyword arguments CacheEntry(**entry_data) accepts: the five fields, each once.
FieldNames == { "video_id", "title", "channel", "timestamp", "search_query" }

accepted(obj) ==
    /\ { obj[k][1] : k \in 1..Len(obj) } = FieldNames
    /\ Len(obj) = Cardinality(FieldNames)

\* VideoCache.load_cache: the exception that leaves it, "none" when it returns.
\* json.JSONDecodeError and KeyError are caught; data.items() on a value that
\* is no object raises AttributeError, CacheEntry(**entry_data) with a missing
\* or an unexpected name raises TypeError.
load_error(f) ==
    IF ~f.exists \/ f.top = "invalid" THEN "none"
    ELSE IF f.top # "object" THEN "AttributeError"
    ELSE IF \E k \in DOMAIN f.data : ~accepted(f.data[k]) THEN "TypeError"
    ELSE "none"

\* VideoCache.load_cache: the mapping read from the file f, when it returns.
load_cache(f) ==
    IF f.exists /\ f.top = "object"
    THEN [ k \in DOMAIN f.data |-> from_json(f.data[k]) ]
    ELSE << >>

\* A slip in get_cache_key: the texts lower-cased but not stripped.
get_cache_key_unstripped(song_title, artist) ==
    lower(song_title) \o << "|" >> \o lower(artist)

\* VideoCache.get_cache_key
get_cache_key(song_title, artist) ==
    strip(lower(song_title)) \o << "|" >> \o strip(lower(artist))

\* The key of a track, as find_best_match passes it.
KeyOf(t) == get_cache_key(t.title, t.artist)

\* A slip in VideoCache.get: the comparison the wrong way round.
IsValid_inverted(entry) ==
    /\ fromisoformat(entry.timestamp) # ValueError
    /\ now - fromisoformat(entry.timestamp) > CacheTTL

\* A slip in VideoCache.get: <= for <, an entry of exactly seven days still served.
IsValid_inclusive(entry) ==
    /\ fromisoformat(entry.timestamp) # ValueError
    /\ now - fromisoformat(entry.timestamp) <= CacheTTL

\* VideoCache.get: the entry is parsed and younger than seven days.
IsValid(entry) ==
    /\ fromisoformat(entry.timestamp) # ValueError
    /\ now - fromisoformat(entry.timestamp) < CacheTTL

\* A lookup whose answer is thrown away: find_best_match searches whatever the cache holds.
cache_hit_ignored(key) == FALSE

\* VideoCache.get: the call returns an entry.
cache_hit(key) == key \in DOMAIN cache /\ IsValid(cache[key])

\* VideoCache.get: the call deletes the entry (expired, or its timestamp invalid).
cache_expired(key) == key \in DOMAIN cache /\ ~IsValid(cache[key])

\* del self.cache[key]
Remove(c, key) == [ k \in DOMAIN c \ {key} |-> c[k] ]

\* VideoCache.get: the mapping after the call.
cache_after_get(key) == IF cache_expired(key) THEN Remove(cache, key) ELSE cache

\* VideoCache.get: the file after the call.
file_after_get(key) == IF cache_expired(key) THEN save_cache(Remove(cache, key)) ELSE file

\* self.cache[key] = entry
Put(c, key, entry) == [ k \in DOMAIN c \cup {key} |-> IF k = key THEN entry ELSE c[k] ]

\* A slip in find_best_match: the first planned query stored, not the winning one.
cache_after_set_first_query(song_title, artist, v, t, c, q) ==
    Put(cache, get_cache_key(song_title, artist),
        CacheEntry(v, t, c, isoformat(now), build_search_queries(Track(setlist[i]))[1]))

\* VideoCache.set: the mapping after the call.
cache_after_set(song_title, artist, v, t, c, q) ==
    Put(cache, get_cache_key(song_title, artist), CacheEntry(v, t, c, isoformat(now), q))

(***************************************************************************)
(* YouTubeClient: the quota ledger.                                        *)
(***************************************************************************)
\* A slip in check_quota_limit: the usage so far left out of the total.
check_quota_limit_ignores_usage(additional_quota) == additional_quota < QuotaThreshold

\* A slip in check_quota_limit: <= for <.
check_quota_limit_inclusive(additional_quota) ==
    quota_used + additional_quota <= QuotaThreshold

\* YouTubeClient.check_quota_limit
check_quota_limit(additional_quota) == quota_used + additional_quota < QuotaThreshold

\* A slip in search_video: the request is not charged.
quota_after_search_uncharged == quota_used

\* search_video: self.quota_used += 100
quota_after_search == quota_used + SearchCost

\* A slip in add_video_to_playlist: the request is not charged.
quota_after_add_uncharged == quota_used

\* add_video_to_playlist: self.quota_used += 50
quota_after_add == quota_used + AddCost

(***************************************************************************)
(* The environment: setlists, cache files of earlier runs, the provider.   *)
(***************************************************************************)
\* n times the same song.
Rep(id, n) == [ k \in 1..n |-> id ]

\* Every setlist of one or two songs.
Tails == { << a >> : a \in TrackIds } \cup { << a, b >> : a \in TrackIds, b \in TrackIds }

\* A show of three songs: "Anthem", the cover "Hallelujah", the cover "Zoo".
ThreeSongs == << "A", "B", "C" >>

\* The setlists of a run: of one or two songs, also after the long opening, and
\* the show of three songs.
Setlists == Tails \cup { Rep("C", LongLen) \o tail : tail \in Tails } \cup { ThreeSongs }

\* An entry an earlier run left behind, with the given timestamp text.
OldEntry(ts) == CacheEntry(<< "v", "0" >>, "t0", "c0", ts, << "o", "l", "d" >>)

\* Timestamps on file at the start: exactly seven days old, an hour younger, unreadable.
OldTimestamps == { isoformat(0), isoformat(1), BadTimestamp }

\* video_cache.json at the start: absent, or holding an entry for "Anthem".
InitialFiles ==
    { NoFile } \cup
    { save_cache([ k \in { KeyOf(Track("A")) } |-> OldEntry(ts) ]) : ts \in OldTimestamps }

\* The provider's catalogue holds no video for the song "Zoo": every search for it
\* comes back empty or fails.
InCatalogue(t) == t.title # Track("C").title

\* The first item the search provider has for a query, when it has one:
\* (video_id, title, channel).
FirstItem(query) ==
    [ video_id |-> << "v", ":" >> \o query, title |-> "t1", channel |-> "c1" ]

\* Python's None, where a video id is expected.
None == << >>

(***************************************************************************)
(* The state after YouTubeClient() in process_playlist_creation.           *)
(***************************************************************************)
Init ==
    /\ setlist \in Setlists
    /\ dry_run \in BOOLEAN
    /\ now = CacheTTL
    /\ file \in InitialFiles
    /\ cache = load_cache(file)
    /\ saves = << >>
    /\ quota_used = 0
    /\ playlist_id = None
    /\ pc = "create"
    /\ i = 1
    /\ qi = 0
    /\ video_id = None
    /\ issued = << >>
    /\ found_tracks = << >>
    /\ not_found_tracks = << >>
    /\ searchCalls = 0
    /\ addCalls = 0
    /\ touched = {}
    /\ outcome = "none"
    /\ failures = 0
    /\ probe = << >>
    /\ main_cache = load_cache(file)
    /\ main_quota_used = 0
    /\ shown = << >>

(***************************************************************************)
(* process_playlist_creation, step by step.                                *)
(***************************************************************************)
env == << setlist, dry_run, probe, main_cache, main_quota_used, shown >>
clock == << now >>
store == << file, cache, saves >>
lists == << found_tracks, not_found_tracks >>
calls == << searchCalls, addCalls >>

\* An external request may still raise.
MayFail == failures < MaxFailures

\* An exception nothing in process_playlist_creation handles: main() catches it
\* and returns 1.
Raise(what) ==
    /\ pc' = "aborted"
    /\ outcome' = what
    /\ failures' = failures + 1

\* if not dry_run: youtube.create_playlist(...)
CreatePlaylist ==
    /\ pc = "create"
    /\ \/ /\ dry_run
          /\ pc' = "check"
          /\ UNCHANGED << playlist_id, outcome, failures >>
       \/ /\ ~dry_run
          /\ pc' = "check"
          /\ playlist_id' = "PL"
          /\ outcome' = "created"
          /\ UNCHANGED failures
       \/ /\ ~dry_run
          /\ MayFail
          /\ Raise("create_failed")
          /\ UNCHANGED playlist_id
    /\ UNCHANGED << env, clock, store, quota_used, i, qi, video_id, issued, lists, calls, touched >>

\* for i, track in enumerate(setlist.tracks, 1): the list is exhausted.
LoopEnd ==
    /\ pc = "check"
    /\ i > Len(setlist)
    /\ pc' = "done"
    /\ UNCHANGED << env, clock, store, quota_used, playlist_id, i, qi, video_id, issued, lists,
                    calls, touched, outcome, failures >>

\* A slip in the loop: the warning is printed and the break forgotten.
QuotaHalt_warns_only ==
    /\ pc = "check"
    /\ i <= Len(setlist)
    /\ ~check_quota_limit(PerTrackQuota)
    /\ pc' = "lookup"
    /\ UNCHANGED << env, clock, store, quota_used, playlist_id, i, qi, video_id, issued, lists,
                    calls, touched, outcome, failures >>

\* if not youtube.check_quota_limit(150): break
QuotaHalt ==
    /\ pc = "check"
    /\ i <= Len(setlist)
    /\ ~check_quota_limit(PerTrackQuota)
    /\ pc' = "done"
    /\ UNCHANGED << env, clock, store, quota_used, playlist_id, i, qi, video_id, issued, lists,
                    calls, touched, outcome, failures >>

\* The quota check passes: find_best_match(track) is called.
BeginTrack ==
    /\ pc = "check"
    /\ i <= Len(setlist)
    /\ check_quota_limit(PerTrackQuota)
    /\ pc' = "lookup"
    /\ UNCHANGED << env, clock, store, quota_used, playlist_id, i, qi, video_id, issued, lists,
                    calls, touched, outcome, failures >>

\* find_best_match: cached = self.cache.get(track.title, track.artist), a hit.
CacheHit ==
    /\ pc = "lookup"
    /\ cache_hit(KeyOf(track))
    /\ video_id' = cache[KeyOf(track)].video_id
    /\ cache' = cache_after_get(KeyOf(track))
    /\ file' = file_after_get(KeyOf(track))
    /\ UNCHANGED saves
    /\ pc' = "matched"
    /\ UNCHANGED << env, clock, quota_used, playlist_id, i, qi, issued, lists, calls, touched,
                    outcome, failures >>

\* find_best_match: the cache has nothing valid; the queries are built.
CacheMiss ==
    /\ pc = "lookup"
    /\ ~cache_hit(KeyOf(track))
    /\ cache' = cache_after_get(KeyOf(track))
    /\ file' = file_after_get(KeyOf(track))
    /\ saves' = IF cache_expired(KeyOf(track))
                THEN Append(saves, << "get", KeyOf(track), cache[KeyOf(track)].video_id >>)
                ELSE saves
    /\ touched' = IF cache_expired(KeyOf(track)) THEN touched \cup {i} ELSE touched
    /\ qi' = 1
    /\ pc' = "search"
    /\ UNCHANGED << env, clock, quota_used, playlist_id, i, video_id, issued, lists, calls,
                    outcome, failures >>

\* find_best_match: queries = self.build_search_queries(track)
queries == build_search_queries(track)

\* A slip in find_best_match: the list walked from its end.
query_backwards == queries[Len(queries) + 1 - qi]

\* for query in queries: the query the loop is at.
query == queries[qi]

\* find_best_match: the loop goes on after a query without result.
NextQuery ==
    IF qi < Len(queries)
    THEN /\ qi' = qi + 1
         /\ UNCHANGED << pc, video_id >>
    ELSE /\ qi' = 0
         /\ video_id' = None
         /\ pc' = "matched"

\* find_best_match: result = self.search_video(query), one query.
Search ==
    /\ pc = "search"
    /\ quota_used' = quota_after_search
    /\ searchCalls' = searchCalls + 1
    /\ issued' = Append(issued, query)
    /\ touched' = touched \cup {i}
    /\ \/ LET r == FirstItem(query)
          IN  /\ InCatalogue(track)
              /\ outcome' = "result"
              /\ cache' = cache_after_set(track.title, track.artist, r.video_id, r.title,
                                          r.channel, query)
              /\ file' = save_cache(cache')
              /\ saves' = Append(saves, << "set", KeyOf(track), r.video_id >>)
              /\ video_id' = r.video_id
              /\ qi' = 0
              /\ pc' = "matched"
              /\ UNCHANGED failures
       \/ /\ outcome' = "empty"
          /\ NextQuery
          /\ UNCHANGED << store, failures >>
       \/ /\ MayFail
          /\ outcome' = "HttpError"
          /\ failures' = failures + 1
          /\ NextQuery
          /\ UNCHANGED store
       \/ /\ MayFail
          /\ Raise("search_raised")
          /\ UNCHANGED << store, qi, video_id >>
    /\ UNCHANGED << env, clock, playlist_id, i, lists, addCalls >>

\* The iteration ends: progress.advance(task), the next track.
Advance ==
    /\ i' = i + 1
    /\ video_id' = None
    /\ issued' = << >>
    /\ pc' = "check"

\* A slip in the loop: the result of add_video_to_playlist is not looked at, the
\* track counts as found whether the add went through or not.
AddVideo_ignores_result ==
    /\ pc = "matched"
    /\ video_id # None
    /\ ~dry_run
    /\ quota_used' = quota_after_add
    /\ addCalls' = addCalls + 1
    /\ touched' = touched \cup {i}
    /\ \/ /\ outcome' = "added"
          /\ found_tracks' = Append(found_tracks, i)
          /\ Advance
          /\ UNCHANGED << not_found_tracks, failures >>
       \/ /\ MayFail
          /\ outcome' = "HttpError"
          /\ failures' = failures + 1
          /\ found_tracks' = Append(found_tracks, i)
          /\ Advance
          /\ UNCHANGED not_found_tracks
       \/ /\ MayFail
          /\ Raise("add_raised")
          /\ UNCHANGED << i, video_id, issued, lists >>
    /\ UNCHANGED << env, clock, store, playlist_id, qi, searchCalls >>

\* if video_id: if not dry_run: success = youtube.add_video_to_playlist(...)
AddVideo ==
    /\ pc = "matched"
    /\ video_id # None
    /\ ~dry_run
    /\ quota_used' = quota_after_add
    /\ addCalls' = addCalls + 1
    /\ touched' = touched \cup {i}
    /\ \/ /\ outcome' = "added"
          /\ found_tracks' = Append(found_tracks, i)
          /\ Advance
          /\ UNCHANGED << not_found_tracks, failures >>
       \/ /\ MayFail
          /\ outcome' = "HttpError"
          /\ failures' = failures + 1
          /\ not_found_tracks' = Append(not_found_tracks, i)
          /\ Advance
          /\ UNCHANGED found_tracks
       \/ /\ MayFail
          /\ Raise("add_raised")
          /\ UNCHANGED << i, video_id, issued, lists >>
    /\ UNCHANGED << env, clock, store, playlist_id, qi, searchCalls >>

\* if video_id: ... else (dry run): found_tracks.append(track)
RecordPreview ==
    /\ pc = "matched"
    /\ video_id # None
    /\ dry_run
    /\ found_tracks' = Append(found_tracks, i)
    /\ Advance
    /\ UNCHANGED << env, clock, store, quota_used, playlist_id, qi, not_found_tracks,
                    calls, touched, outcome, failures >>

\* A slip in the loop: the unmatched track is not recorded.
RecordNoMatch_drops ==
    /\ pc = "matched"
    /\ video_id = None
    /\ Advance
    /\ UNCHANGED << env, clock, store, quota_used, playlist_id, qi, lists,
                    calls, touched, outcome, failures >>

\* else: not_found_tracks.append(track)
RecordNoMatch ==
    /\ pc = "matched"
    /\ video_id = None
    /\ not_found_tracks' = Append(not_found_tracks, i)
    /\ Advance
    /\ UNCHANGED << env, clock, store, quota_used, playlist_id, qi, found_tracks,
                    calls, touched, outcome, failures >>

\* An hour passes while the run is under way.
Tick ==
    /\ pc \notin { "done", "aborted", "end", "cancelled" }
    /\ now < CacheTTL + MaxTicks
    /\ now' = now + 1
    /\ UNCHANGED << env, store, quota_used, playlist_id, pc, i, qi, video_id, issued, lists,
                    calls, touched, outcome, failures >>

Next ==
    \/ CreatePlaylist
    \/ LoopEnd
    \/ QuotaHalt
    \/ BeginTrack
    \/ CacheHit
    \/ CacheMiss
    \/ Search
    \/ AddVideo
    \/ RecordPreview
    \/ RecordNoMatch
    \/ Tick

Spec == Init /\ [][Next]_vars

\* The statements of process_playlist_creation: everything but the passing of time.
Statement ==
    \/ CreatePlaylist
    \/ LoopEnd
    \/ QuotaHalt
    \/ BeginTrack
    \/ CacheHit
    \/ CacheMiss
    \/ Search
    \/ AddVideo
    \/ RecordPreview
    \/ RecordNoMatch

\* The interpreter goes on to the next statement, and every call to the search
\* provider and to the playlist returns or raises: a run that can take a step takes one.
\* The runs followed to their end: one song, two songs, and the long setlist that
\* reaches the quota break, the last as a run that is not a preview and starts
\* without a cache file.
FairSetlists == { << "A" >>, << "C", "B" >>, Rep("C", LongLen) \o << "C", "A" >> }

InitFair ==
    /\ Init
    /\ setlist \in FairSetlists
    /\ file \in { NoFile, save_cache([ k \in { KeyOf(Track("A")) } |-> OldEntry(isoformat(1)) ]) }
    /\ Len(setlist) > 2 => ~dry_run /\ file = NoFile

SpecFair == InitFair /\ [][Next]_vars /\ WF_vars(Statement)

(***************************************************************************)
(* The quota ledger on its own: a YouTubeClient whose search_video,        *)
(* add_video_to_playlist and check_quota_limit are called in any order.    *)
(***************************************************************************)
\* The additional_quota values check_quota_limit is probed with.
ProbeUnits == { 0, AddCost, SearchCost, PerTrackQuota }

InitLedger ==
    /\ setlist = << "A" >>
    /\ dry_run = TRUE
    /\ now = CacheTTL
    /\ file = NoFile
    /\ cache = load_cache(file)
    /\ saves = << >>
    /\ quota_used = 0
    /\ playlist_id = None
    /\ pc = "ledger"
    /\ i = 1
    /\ qi = 0
    /\ video_id = None
    /\ issued = << >>
    /\ found_tracks = << >>
    /\ not_found_tracks = << >>
    /\ searchCalls = 0
    /\ addCalls = 0
    /\ touched = {}
    /\ outcome = "none"
    /\ failures = 0
    /\ probe = << >>
    /\ main_cache = load_cache(file)
    /\ main_quota_used = 0
    /\ shown = << >>

ledgerFrame == << setlist, dry_run, now, file, cache, playlist_id, pc, i, qi, video_id, issued,
                  main_cache, main_quota_used, shown, saves,
                  found_tracks, not_found_tracks, touched, outcome, failures >>

\* check_quota_limit(units): probe' is (units, quota_used before, what it returned).
LedgerCheck ==
    /\ pc = "ledger"
    /\ \E units \in ProbeUnits :
          probe' = << units, quota_used, check_quota_limit(units) >>
    /\ UNCHANGED << ledgerFrame, quota_used, searchCalls, addCalls >>

\* search_video, as far as the ledger goes.
LedgerSearch ==
    /\ pc = "ledger"
    /\ searchCalls + addCalls < MaxLedgerCalls
    /\ quota_used' = quota_after_search
    /\ searchCalls' = searchCalls + 1
    /\ probe' = << >>
    /\ UNCHANGED << ledgerFrame, addCalls >>

\* add_video_to_playlist, as far as the ledger goes.
LedgerAdd ==
    /\ pc = "ledger"
    /\ searchCalls + addCalls < MaxLedgerCalls
    /\ quota_used' = quota_after_add
    /\ addCalls' = addCalls + 1
    /\ probe' = << >>
    /\ UNCHANGED << ledgerFrame, searchCalls >>

NextLedger ==
    \/ LedgerCheck
    \/ LedgerSearch
    \/ LedgerAdd

SpecLedger == InitLedger /\ [][NextLedger]_vars

(***************************************************************************)
(* main(): it constructs a YouTubeClient of its own, clears that client's  *)
(* cache when --clear-cache is given, calls process_playlist_creation      *)
(* (which constructs the client the run uses) and hands its own client to  *)
(* display_results.  Ctrl-C ends it anywhere.                              *)
(***************************************************************************)
\* VideoCache.clear_expired: the mapping after the call.
\* A clearing that empties the cache instead of removing the expired entries only.
clear_expired_all(c) == << >>

clear_expired(c) == [ k \in { key \in DOMAIN c : IsValid(c[key]) } |-> c[k] ]

\* VideoCache.get_stats, without the file size.
get_stats(c) ==
    [ total_entries |-> Cardinality(DOMAIN c),
      recent_entries |->
          Cardinality({ k \in DOMAIN c :
                          /\ fromisoformat(c[k].timestamp) # ValueError
                          /\ now - fromisoformat(c[k].timestamp) < RecentHours }) ]

\* YouTubeClient.get_quota_usage, of a client with the given quota_used and cache.
get_quota_usage(used, c) ==
    [ quota_used |-> used,
      estimated_remaining |-> DailyLimit - used,
      cache_hits |-> get_stats(c).total_entries,
      recent_cache_hits |-> get_stats(c).recent_entries ]

\* A video_cache.json that is not JSON: damaged, or emptied by open(.., 'w') and
\* not yet written out again.
InvalidJsonFile == [ exists |-> TRUE, top |-> "invalid", data |-> << >> ]

\* A video_cache.json whose top level is a JSON array.
ArrayFile == [ exists |-> TRUE, top |-> "array", data |-> << >> ]

\* A video_cache.json with one entry, given as its JSON object.
OneEntryFile(obj) ==
    [ exists |-> TRUE, top |-> "object", data |-> [ k \in { KeyOf(Track("A")) } |-> obj ] ]

\* Files load_cache cannot turn into entries: no JSON, no object, an entry without
\* search_query, an entry with a member CacheEntry does not know.
CorruptFiles ==
    { InvalidJsonFile,
      ArrayFile,
      OneEntryFile(SubSeq(to_json(OldEntry(isoformat(1))), 1, 4)),
      OneEntryFile(Append(to_json(OldEntry(isoformat(1))), << "views", "9" >>)) }

\* A file with three entries: an hour short of seven days old, exactly seven days old,
\* and one whose timestamp cannot be read.
MixedFile ==
    save_cache([ k \in { KeyOf(Track("A")), KeyOf(Track("B")), KeyOf(Track("C")) } |->
                   IF k = KeyOf(Track("A")) THEN OldEntry(isoformat(1))
                   ELSE IF k = KeyOf(Track("B")) THEN OldEntry(isoformat(0))
                   ELSE OldEntry(BadTimestamp) ])

MainFiles == InitialFiles \cup CorruptFiles \cup { MixedFile }

\* The setlists given to main(): of one or two songs, and one long enough for the quota break.
MainSetlists == Tails \cup { Rep("C", LongLen) \o << "C", "A" >> }

InitMain ==
    /\ setlist \in MainSetlists
    /\ dry_run \in BOOLEAN
    /\ now = CacheTTL
    /\ file \in MainFiles
    /\ cache = << >>
    /\ saves = << >>
    /\ quota_used = 0
    /\ playlist_id = None
    /\ pc = "main"
    /\ i = 1
    /\ qi = 0
    /\ video_id = None
    /\ issued = << >>
    /\ found_tracks = << >>
    /\ not_found_tracks = << >>
    /\ searchCalls = 0
    /\ addCalls = 0
    /\ touched = {}
    /\ outcome = "none"
    /\ failures = 0
    /\ probe = << >>
    /\ main_cache = << >>
    /\ main_quota_used = 0
    /\ shown = << >>

run == << quota_used, playlist_id, i, qi, video_id, issued, lists, calls, touched, failures >>

\* main: youtube = YouTubeClient().  An exception of load_cache reaches
\* main's except Exception.
MainClient ==
    /\ pc = "main"
    /\ IF load_error(file) = "none"
       THEN /\ main_cache' = load_cache(file)
            /\ main_quota_used' = 0
            /\ pc' = "main_ready"
            /\ UNCHANGED outcome
       ELSE /\ pc' = "aborted"
            /\ outcome' = load_error(file)
            /\ UNCHANGED << main_cache, main_quota_used >>
    /\ UNCHANGED << setlist, dry_run, probe, shown, clock, store, run >>

\* main: if args.clear_cache: youtube.clear_cache()
ClearCache ==
    /\ pc = "main_ready"
    /\ main_cache' = clear_expired(main_cache)
    /\ file' = IF main_cache' # main_cache THEN save_cache(main_cache') ELSE file
    /\ saves' = IF main_cache' # main_cache
                THEN Append(saves, << "clear_expired", NoText, None >>)
                ELSE saves
    /\ pc' = "process"
    /\ UNCHANGED << setlist, dry_run, probe, shown, main_quota_used, clock, cache, run, outcome >>

\* main calls process_playlist_creation: youtube = YouTubeClient(), a second client.
ProcessClient ==
    /\ pc \in { "main_ready", "process" }
    /\ IF load_error(file) = "none"
       THEN /\ cache' = load_cache(file)
            /\ pc' = "create"
            /\ UNCHANGED outcome
       ELSE /\ pc' = "aborted"
            /\ outcome' = load_error(file)
            /\ UNCHANGED cache
    /\ UNCHANGED << env, clock, file, saves, run >>

\* main: display_results(..., youtube), which prints youtube_client.get_quota_usage().
Display ==
    /\ pc = "done"
    /\ shown' = get_quota_usage(main_quota_used, main_cache)
    /\ pc' = "end"
    /\ UNCHANGED << setlist, dry_run, probe, main_cache, main_quota_used, clock, store, run,
                    outcome >>

\* main: except KeyboardInterrupt, between two writes of the cache file.
Interrupt ==
    /\ pc \notin { "aborted", "end", "cancelled" }
    /\ pc' = "cancelled"
    /\ UNCHANGED << env, clock, store, run, outcome >>

\* KeyboardInterrupt inside save_cache, after open(self.cache_file, 'w') has emptied
\* the file and before json.dump has written it out: in VideoCache.set, in the
\* deletion of VideoCache.get, in clear_expired.
InterruptedSave ==
    /\ \/ /\ pc = "search"
          /\ InCatalogue(track)
          /\ quota_used' = quota_after_search
          /\ searchCalls' = searchCalls + 1
          /\ issued' = Append(issued, query)
          /\ touched' = touched \cup {i}
          /\ cache' = cache_after_set(track.title, track.artist, FirstItem(query).video_id,
                                      FirstItem(query).title, FirstItem(query).channel, query)
          /\ UNCHANGED << env, playlist_id, i, qi, video_id, lists, addCalls, failures >>
       \/ /\ pc = "lookup"
          /\ cache_expired(KeyOf(track))
          /\ cache' = Remove(cache, KeyOf(track))
          /\ UNCHANGED << env, run >>
       \/ /\ pc = "main_ready"
          /\ clear_expired(main_cache) # main_cache
          /\ main_cache' = clear_expired(main_cache)
          /\ UNCHANGED << setlist, dry_run, probe, shown, main_quota_used, cache, run >>
    /\ file' = InvalidJsonFile
    /\ pc' = "cancelled"
    /\ UNCHANGED << clock, outcome, saves >>

NextMain ==
    \/ MainClient
    \/ ClearCache
    \/ ProcessClient
    \/ CreatePlaylist
    \/ LoopEnd
    \/ QuotaHalt
    \/ BeginTrack
    \/ CacheHit
    \/ CacheMiss
    \/ Search
    \/ AddVideo
    \/ RecordPreview
    \/ RecordNoMatch
    \/ Tick
    \/ Display
    \/ Interrupt
    \/ InterruptedSave

SpecMain == InitMain /\ [][NextMain]_vars

(***************************************************************************)
(* The query planner at work: preview runs over a few songs, among them a  *)
(* cover credited to the performer itself and a song of an artist called   *)
(* "official".  No cache file, no playlist: find_best_match plans and      *)
(* searches, the loop records.                                             *)
(***************************************************************************)
PlannerTrackIds == TrackIds \cup { "E", "F" }

PlannerSetlists == UNION { [ 1..n -> PlannerTrackIds ] : n \in 1..MaxShort }

InitPlanner ==
    /\ setlist \in PlannerSetlists
    /\ dry_run = TRUE
    /\ now = CacheTTL
    /\ file = NoFile
    /\ cache = load_cache(file)
    /\ saves = << >>
    /\ quota_used = 0
    /\ playlist_id = None
    /\ pc = "create"
    /\ i = 1
    /\ qi = 0
    /\ video_id = None
    /\ issued = << >>
    /\ found_tracks = << >>
    /\ not_found_tracks = << >>
    /\ searchCalls = 0
    /\ addCalls = 0
    /\ touched = {}
    /\ outcome = "none"
    /\ failures = 0
    /\ probe = << >>
    /\ main_cache = load_cache(file)
    /\ main_quota_used = 0
    /\ shown = << >>

NextPlanner ==
    \/ CreatePlaylist
    \/ LoopEnd
    \/ BeginTrack
    \/ CacheHit
    \/ CacheMiss
    \/ Search
    \/ RecordPreview
    \/ RecordNoMatch

SpecPlanner == InitPlanner /\ [][NextPlanner]_vars

(***************************************************************************)
(* Vocabulary of the properties.                                           *)
(***************************************************************************)
\* The key has an entry younger than 7 days (7 * 24 hours) in the cache.
FreshEntry(key) ==
    /\ key \in DOMAIN cache
    /\ cache[key].timestamp[1] = "iso"
    /\ now - cache[key].timestamp[2] < 7 * 24

\* The loop was left by the quota break, at song i.
Halted == pc = "done" /\ i <= Len(setlist)

\* The elements of a list.
Range(list) == { list[k] : k \in 1..Len(list) }

\* The list is in setlist order.
InSetlistOrder(list) == \A k \in 1..Len(list) - 1 : list[k] < list[k + 1]

\* The list only grew at its end.
Extends(new, old) == Len(old) <= Len(new) /\ SubSeq(new, 1, Len(old)) = old

\* Two texts with a separator between them.
Join(a, sep, b) == a \o sep \o b

(***************************************************************************)
(* C1.  A cache hit costs nothing: when find_best_match is called for a    *)
(* song whose key has an entry younger than 7 days, it returns that        *)
(* entry's video id, sends no search request and leaves quota_used, the    *)
(* cache and the cache file as they were.                                  *)
(***************************************************************************)
C1_CacheHitCostsNothing ==
    [][ ( pc = "lookup" /\ FreshEntry(KeyOf(track)) /\ pc' # "lookup" )
        => /\ pc' = "matched"
           /\ video_id' = cache[KeyOf(track)].video_id
           /\ quota_used' = quota_used
           /\ searchCalls' = searchCalls
           /\ cache' = cache
           /\ file' = file ]_vars

\* The second song of a preview run resolved from the entry the first one's only
\* search wrote: still 100 units.
C1_Witness ==
    /\ pc = "matched"
    /\ i = 2
    /\ dry_run
    /\ video_id # None
    /\ searchCalls = 1
    /\ quota_used = 100
    /\ found_tracks = << 1 >>

(***************************************************************************)
(* C2.  Per-query admission: a search request is only ever sent from a     *)
(* state with quota_used + 100 < 9500.                                     *)
(***************************************************************************)
C2_PerQueryAdmission ==
    [][ searchCalls' > searchCalls => quota_used + 100 < 9500 ]_vars

(***************************************************************************)
(* C3.  The daily budget: quota_used stays strictly below 10000 in every   *)
(* state of the run.                                                       *)
(***************************************************************************)
C3_BelowDailyLimit == quota_used < 10000

\* A playlist add charged beyond the 9500 threshold.
C3_Witness == quota_used > 9500 /\ outcome = "added"

(***************************************************************************)
(* C4.  The halt propagates: at the first song whose check of 150 units    *)
(* fails the loop stops, and for that song and every later one no search   *)
(* request, no playlist add and no cache write is made.                    *)
(***************************************************************************)
C4_HaltPropagates ==
    /\ [][ ( pc = "check" /\ i <= Len(setlist) /\ quota_used + 150 >= 9500 /\ pc' # pc )
           => ( pc' = "done" /\ i' = i ) ]_vars
    /\ []( Halted => \A j \in touched : j < i )
    /\ [][ Halted => UNCHANGED << searchCalls, addCalls, quota_used, cache, file, touched >> ]_vars

\* The loop halted before a song that has a fresh cache entry.
C4_Witness ==
    /\ Halted
    /\ \E j \in i..Len(setlist) : FreshEntry(KeyOf(Track(setlist[j])))

(***************************************************************************)
(* C5.  Every song of the setlist has a reported outcome when the run      *)
(* returns: the reported outcomes are as many as the songs.                *)
(***************************************************************************)
C5_EverySongReported ==
    pc = "done" => Len(found_tracks) + Len(not_found_tracks) = Len(setlist)

(***************************************************************************)
(* C6.  Processed songs keep their results: the two lists only grow at     *)
(* their end, are disjoint, are each in setlist order and together hold    *)
(* exactly the songs processed so far, also after a halt.                  *)
(***************************************************************************)
C6_ResultsKept ==
    /\ []( /\ InSetlistOrder(found_tracks)
           /\ InSetlistOrder(not_found_tracks)
           /\ Range(found_tracks) \cap Range(not_found_tracks) = {}
           /\ Range(found_tracks) \cup Range(not_found_tracks) = 1..(i - 1) )
    /\ [][ /\ Extends(found_tracks', found_tracks)
           /\ Extends(not_found_tracks', not_found_tracks) ]_vars

\* A halt with songs in both lists.
C6_Witness == Halted /\ found_tracks # << >> /\ not_found_tracks # << >>

(***************************************************************************)
(* C7.  Per-item failures never abort the run: after a failed search the   *)
(* next planned query of the song is sent, after a failed playlist add the *)
(* next song is taken up, and no failed request ends the run.              *)
(***************************************************************************)
C7_FailuresNeverAbort ==
    [][ /\ ( searchCalls' > searchCalls /\ outcome' \in { "HttpError", "search_raised" } )
           => /\ pc' # "aborted"
              /\ qi < Len(queries) => ( pc' = "search" /\ qi' = qi + 1 )
        /\ ( addCalls' > addCalls /\ outcome' \in { "HttpError", "add_raised" } )
           => ( pc' = "check" /\ i' = i + 1 ) ]_vars

(***************************************************************************)
(* C8.  Charge on attempt: every search request adds exactly 100 and every *)
(* playlist add exactly 50 to quota_used, however the request ends;        *)
(* nothing else changes quota_used, which never decreases and always       *)
(* equals 100 x searches + 50 x adds.                                      *)
(***************************************************************************)
C8_ChargeOnAttempt ==
    /\ []( quota_used = 100 * searchCalls + 50 * addCalls )
    /\ [][ /\ quota_used' >= quota_used
           /\ searchCalls' # searchCalls
              => ( searchCalls' = searchCalls + 1 /\ quota_used' = quota_used + 100 )
           /\ addCalls' # addCalls
              => ( addCalls' = addCalls + 1 /\ quota_used' = quota_used + 50 )
           /\ UNCHANGED << searchCalls, addCalls >> => quota_used' = quota_used ]_vars

\* A playlist add that raised, after a search, both charged.
C8_Witness == outcome = "add_raised" /\ searchCalls > 0 /\ quota_used = 150

(***************************************************************************)
(* C9.  check_quota_limit is exact and free of side effects: called with   *)
(* units it returns true exactly when quota_used + units is below          *)
(* 10000 - 500 = 9500 (false at 9500 itself), and quota_used is what it    *)
(* was.  Checked on the bare client, SpecLedger.                           *)
(***************************************************************************)
C9_CanAffordExact ==
    /\ []( probe # << >> => ( probe[3] <=> probe[2] + probe[1] < 10000 - 500 ) )
    /\ [][ ( probe' # probe /\ probe' # << >> )
           => ( quota_used' = quota_used /\ probe'[2] = quota_used ) ]_vars

\* The check of 150 units at 9350 used: exactly 9500, refused.
C9_Witness == probe = << 150, 9350, FALSE >>

(***************************************************************************)
(* C10.  The query plan: for a cover with an original artist the queries   *)
(* are "{title} {original}", "{title} - {original}", "{title} {performer}" *)
(* and "{title} official"; for every other song "{title} {performer}",     *)
(* "{title} - {performer}" and "{title} official".                         *)
(***************************************************************************)
Official == << "o", "f", "f", "i", "c", "i", "a", "l" >>

ExpectedPlan(t) ==
    IF t.is_cover /\ t.original_artist # NoText
    THEN << Join(t.title, << " " >>, t.original_artist),
            Join(t.title, << " ", "-", " " >>, t.original_artist),
            Join(t.title, << " " >>, t.artist),
            Join(t.title, << " " >>, Official) >>
    ELSE << Join(t.title, << " " >>, t.artist),
            Join(t.title, << " ", "-", " " >>, t.artist),
            Join(t.title, << " " >>, Official) >>

C10_QueryPlan ==
    pc = "search"
    => /\ queries = ExpectedPlan(track)
       /\ setlist[i] = "B"
          => /\ Len(queries) = 4
             /\ queries[1] = << "H", "a", "l", "l", "e", "l", "u", "j", "a", "h", " ",
                                "L", "e", "o", "n", "a", "r", "d", " ",
                                "C", "o", "h", "e", "n" >>
             /\ queries[3] = << "H", "a", "l", "l", "e", "l", "u", "j", "a", "h", " ", "X" >>
       /\ setlist[i] = "D"
          => /\ Len(queries) = 3
             /\ queries[2] = << " ", "a", "n", "t", "h", "e", "m", " ", "-", " ", "X" >>

\* The last query of a cover's plan, and the last of a cover without original artist.
C10_Witness ==
    /\ pc = "search"
    /\ \/ setlist[i] = "B" /\ qi = 4
       \/ setlist[i] = "D" /\ qi = 3

(***************************************************************************)
(* C11.  The planned queries are deduplicated and bounded: the list        *)
(* build_search_queries returns for the song has at most 5 entries and no  *)
(* string twice, and no query is sent to the provider twice for one song.  *)
(* Checked on the planner runs, SpecPlanner.                               *)
(***************************************************************************)
C11_PlanDeduplicated ==
    LET NoRepeat(list) ==
            \A k, m \in 1..Len(list) : k # m => list[k] # list[m]
    IN  /\ \A id \in PlannerTrackIds :
              /\ Len(build_search_queries(Track(id))) <= 5
              /\ NoRepeat(build_search_queries(Track(id)))
        /\ NoRepeat(issued)

(***************************************************************************)
(* C12.  The query order is honoured at call time: the queries sent for a  *)
(* song are the planned ones, one at a time and in plan order; for a cover *)
(* with an original artist the first one sent is "{title} {original}";     *)
(* "{title} official" is sent only once every artist-qualified query of    *)
(* the song has been sent and the last request came back without result.   *)
(***************************************************************************)
C12_PlanOrder ==
    /\ []( i <= Len(setlist) => Extends(ExpectedPlan(track), issued) )
    /\ []( ( i <= Len(setlist) /\ issued # << >>
             /\ track.is_cover /\ track.original_artist # NoText )
           => issued[1] = Join(track.title, << " " >>, track.original_artist) )
    /\ [][ searchCalls' > searchCalls
           => /\ Len(issued') = Len(issued) + 1
              /\ SubSeq(issued', 1, Len(issued)) = issued ]_vars
    /\ [][ ( Len(issued') > Len(issued)
             /\ issued'[Len(issued')] = Join(track.title, << " " >>, Official) )
           => /\ issued = SubSeq(ExpectedPlan(track), 1, Len(ExpectedPlan(track)) - 1)
              /\ outcome \in { "empty", "HttpError" }
              /\ video_id = None ]_vars

\* The fourth query of a cover is "{title} official", sent after three empty results.
C12_Witness ==
    /\ setlist[1] = "B"
    /\ i = 1
    /\ Len(issued) = 4
    /\ issued[4] = Join(Track("B").title, << " " >>, Official)
    /\ failures = 0

(***************************************************************************)
(* C13.  The first result wins: the search that returns a result ends the  *)
(* lookup with that result's video id, no further query is sent for the    *)
(* song, and exactly one cache entry is written, under the song's key,     *)
(* holding the video id, title and channel of the result, the current time *)
(* and the winning query; when the last planned query comes back without   *)
(* result the lookup returns None and the cache and its file stay as they  *)
(* were.                                                                   *)
(***************************************************************************)
C13_FirstResultWins ==
    /\ [][ ( searchCalls' > searchCalls /\ outcome' = "result" )
           => LET won == issued'[Len(issued')]
                  key == KeyOf(track)
              IN  /\ pc' = "matched"
                  /\ video_id' = FirstItem(won).video_id
                  /\ DOMAIN cache' = DOMAIN cache \cup { key }
                  /\ \A k \in DOMAIN cache \ { key } : cache'[k] = cache[k]
                  /\ cache'[key] = [ video_id |-> FirstItem(won).video_id,
                                     title |-> FirstItem(won).title,
                                     channel |-> FirstItem(won).channel,
                                     timestamp |-> << "iso", now >>,
                                     search_query |-> won ] ]_vars
    /\ [][ ( searchCalls' > searchCalls /\ outcome' # "result" )
           => /\ cache' = cache
              /\ file' = file
              /\ pc' = "matched" => ( video_id' = None /\ issued' = ExpectedPlan(track) ) ]_vars
    /\ [][ pc = "matched" => searchCalls' = searchCalls /\ cache' = cache ]_vars
    /\ []( ( pc = "matched" /\ issued # << >> /\ video_id = None )
           => issued = ExpectedPlan(track) )

\* A cover found by its third query: two requests without result, then the winner.
C13_Witness ==
    /\ setlist[1] = "B"
    /\ i = 1
    /\ pc = "matched"
    /\ Len(issued) = 3
    /\ video_id = FirstItem(issued[3]).video_id
    /\ cache[KeyOf(Track("B"))].search_query = issued[3]

(***************************************************************************)
(* C14.  Freshness: VideoCache.get never returns an entry whose age is 7   *)
(* days or more.  For an entry with a readable timestamp T: before T + 7   *)
(* days get returns it and leaves cache and file unchanged; from T + 7     *)
(* days on get returns nothing, and when it returns the entry is gone from *)
(* the mapping and the file has been rewritten without it.                 *)
(***************************************************************************)
C14_Freshness ==
    [][ ( pc = "lookup" /\ pc' # "lookup"
          /\ KeyOf(track) \in DOMAIN cache
          /\ cache[KeyOf(track)].timestamp[1] = "iso" )
        => LET key == KeyOf(track)
               age == now - cache[key].timestamp[2]
           IN  /\ age < 7 * 24
                  => /\ pc' = "matched"
                     /\ video_id' = cache[key].video_id
                     /\ cache' = cache
                     /\ file' = file
               /\ age >= 7 * 24
                  => /\ pc' = "search"
                     /\ video_id' = None
                     /\ DOMAIN cache' = DOMAIN cache \ { key }
                     /\ \A k \in DOMAIN cache' : cache'[k] = cache[k]
                     /\ file'.exists
                     /\ DOMAIN file'.data = DOMAIN cache' ]_vars

\* get has just dropped the entry of "Anthem" and rewritten the file; an hour
\* earlier, at the start of the run, the file still held it.
C14_Witness ==
    /\ pc = "search"
    /\ issued = << >>
    /\ setlist[i] = "A"
    /\ i \in touched
    /\ now = CacheTTL + 1
    /\ file.exists
    /\ KeyOf(Track("A")) \notin DOMAIN file.data

(***************************************************************************)
(* C15.  The cache key is deterministic: two songs whose titles and        *)
(* artists are equal after trimming and lower-casing have the same key,    *)
(* whatever their is_cover and original_artist; set writes and get reads   *)
(* under the key made of the normalised title and artist, so an entry set  *)
(* under one spelling is the entry get returns, while it is fresh, under   *)
(* any other.                                                              *)
(***************************************************************************)
Normalised(s) == lower(strip(s))

NormalisedKey(t) == Join(Normalised(t.title), << "|" >>, Normalised(t.artist))

C15_KeyDeterminism ==
    /\ []( pc = "lookup"
           => \A other \in TrackIds :
                 ( /\ Normalised(Track(other).title) = Normalised(track.title)
                   /\ Normalised(Track(other).artist) = Normalised(track.artist) )
                 => get_cache_key(Track(other).title, Track(other).artist)
                      = get_cache_key(track.title, track.artist) )
    /\ [][ ( searchCalls' > searchCalls /\ outcome' = "result" )
           => /\ NormalisedKey(track) \in DOMAIN cache'
              /\ cache'[NormalisedKey(track)].video_id = video_id'
              /\ DOMAIN cache' \ DOMAIN cache \subseteq { NormalisedKey(track) } ]_vars
    /\ [][ ( pc = "lookup" /\ pc' # "lookup" /\ FreshEntry(NormalisedKey(track)) )
           => /\ pc' = "matched"
              /\ video_id' = cache[NormalisedKey(track)].video_id ]_vars

\* "Anthem" was searched and stored; " anthem", flagged as a cover, is then
\* answered from that entry without a search.
C15_Witness ==
    /\ setlist = << "A", "D" >>
    /\ i = 2
    /\ pc = "matched"
    /\ touched = { 1 }
    /\ searchCalls >= 1
    /\ video_id = FirstItem(cache[KeyOf(Track("A"))].search_query).video_id

(***************************************************************************)
(* C16.  Persistence is synchronous and the round trip exact: when a set,  *)
(* an expiry deletion in get or a clear_expired that removed something has *)
(* completed, a VideoCache loading the file gets the very mapping the      *)
(* writer holds, key by key and field by field; set on a key that has an   *)
(* entry replaces it and adds no key; with no file at startup the client   *)
(* is constructed with an empty cache.  Checked on main(), SpecMain.       *)
(***************************************************************************)
Reloads(f, c) ==
    /\ f.exists
    /\ load_error(f) = "none"
    /\ DOMAIN load_cache(f) = DOMAIN c
    /\ \A k \in DOMAIN c :
          /\ load_cache(f)[k].video_id = c[k].video_id
          /\ load_cache(f)[k].title = c[k].title
          /\ load_cache(f)[k].channel = c[k].channel
          /\ load_cache(f)[k].timestamp = c[k].timestamp
          /\ load_cache(f)[k].search_query = c[k].search_query

C16_ExactRoundTrip ==
    /\ [][ ( searchCalls' > searchCalls /\ outcome' = "result" /\ pc' # "cancelled" )
           => Reloads(file', cache') ]_vars
    /\ [][ ( pc = "lookup" /\ pc' = "search" /\ cache' # cache )
           => Reloads(file', cache') ]_vars
    /\ [][ ( pc = "main_ready" /\ pc' = "process" /\ main_cache' # main_cache )
           => Reloads(file', main_cache') ]_vars
    /\ []( ( pc = "lookup" /\ KeyOf(track) \in DOMAIN cache )
           => LET after == cache_after_set(track.title, track.artist, << "v", "2" >>,
                                           "t2", "c2", << "q" >>)
              IN  /\ DOMAIN after = DOMAIN cache
                  /\ after[KeyOf(track)] =
                        [ video_id |-> << "v", "2" >>, title |-> "t2", channel |-> "c2",
                          timestamp |-> << "iso", now >>, search_query |-> << "q" >> ] )
    /\ [][ ( pc = "main" /\ ~file.exists /\ pc' \notin { "main", "cancelled" } )
           => ( pc' = "main_ready" /\ main_cache' = << >> ) ]_vars
    /\ [][ ( pc \in { "main_ready", "process" } /\ ~file.exists
             /\ pc' \notin { "main_ready", "process", "cancelled" } )
           => ( pc' = "create" /\ cache' = << >> ) ]_vars

\* clear_expired has removed the only entry and written the empty mapping, and
\* the client of the run has loaded exactly that from the file.
C16_Witness ==
    /\ pc = "create"
    /\ main_cache = << >>
    /\ file.exists
    /\ file.top = "object"
    /\ Reloads(file, main_cache)
    /\ cache = main_cache

(***************************************************************************)
(* C17.  Corruption is never fatal: when the file there is cannot be read  *)
(* as a mapping of well-formed entries (it is not JSON, its top level is   *)
(* no object, or an entry lacks a field or has one too many), constructing *)
(* the client completes and its cache is empty.  Checked on main(),        *)
(* SpecMain.                                                               *)
(***************************************************************************)
WellFormed(obj) ==
    /\ Len(obj) = 5
    /\ { obj[k][1] : k \in 1..Len(obj) } =
          { "video_id", "title", "channel", "timestamp", "search_query" }

Unparseable(f) ==
    /\ f.exists
    /\ \/ f.top # "object"
       \/ \E k \in DOMAIN f.data : ~WellFormed(f.data[k])

C17_CorruptionNeverFatal ==
    [][ ( pc = "main" /\ Unparseable(file) /\ pc' \notin { "main", "cancelled" } )
        => ( pc' = "main_ready" /\ main_cache' = << >> ) ]_vars

(***************************************************************************)
(* C18.  An interrupt leaves the cache file valid: whenever the run is     *)
(* cancelled, also inside save_cache, the file is what it was before the   *)
(* step or it is the encoding of the cache as the step leaves it (of the   *)
(* writing client's cache); it is never emptied or cut short.  Checked on  *)
(* main(), SpecMain.                                                       *)
(***************************************************************************)
C18_InterruptLeavesFileValid ==
    [][ pc' = "cancelled"
        => \/ file' = file
           \/ file' = save_cache(cache')
           \/ file' = save_cache(main_cache') ]_vars

(***************************************************************************)
(* C19.  The report shows this run's consumption: the quota_used shown     *)
(* after a run is 100 per search request plus 50 per playlist add made in  *)
(* the run, estimated_remaining is 10000 minus that, and cache_hits is the *)
(* number of entries the cache file holds at that moment, those written    *)
(* during the run included.  Checked on main(), SpecMain.                  *)
(***************************************************************************)
C19_ReportShowsRun ==
    pc = "end"
    => /\ shown.quota_used = 100 * searchCalls + 50 * addCalls
       /\ shown.estimated_remaining = 10000 - shown.quota_used
       /\ shown.cache_hits = Cardinality(DOMAIN load_cache(file))

(***************************************************************************)
(* C20.  The playlist add is admitted separately: a playlist add is only   *)
(* ever sent outside preview mode and from a state with                    *)
(* quota_used + 50 < 9500.                                                 *)
(***************************************************************************)
C20_AddAdmitted ==
    [][ addCalls' > addCalls => ( ~dry_run /\ quota_used + 50 < 9500 ) ]_vars

(***************************************************************************)
(* C21.  The worked scenario: a run that is no preview, over "Anthem" with *)
(* a fresh cache entry, the cover "Hallelujah" (performer "X", original    *)
(* artist "Leonard Cohen") matched by its first query, and a cover for     *)
(* which all four queries come back empty, no request failing.  As stated: *)
(* the results are Found, Found, NotFound and the run costs 550 units.     *)
(***************************************************************************)
ScenarioRan ==
    /\ pc = "done"
    /\ i > Len(setlist)
    /\ setlist = << "A", "B", "C" >>
    /\ ~dry_run
    /\ failures = 0
    /\ KeyOf(Track("A")) \in DOMAIN cache
    /\ cache[KeyOf(Track("A"))].search_query = << "o", "l", "d" >>
    /\ KeyOf(Track("B")) \in DOMAIN cache
    /\ cache[KeyOf(Track("B"))].search_query =
          Join(Track("B").title, << " " >>, Track("B").original_artist)

C21_ScenarioAsStated ==
    ScenarioRan
    => /\ found_tracks = << 1, 2 >>
       /\ not_found_tracks = << 3 >>
       /\ quota_used = 550

(***************************************************************************)
(* C21, amended.  In that scenario the results are Found, Found, NotFound  *)
(* and the run costs 600 units: 50 for the playlist add of the cached      *)
(* "Anthem", 100 + 50 for "Hallelujah", 400 for the four queries of the    *)
(* third song; five search requests and two playlist adds are sent.        *)
(***************************************************************************)
C21_Scenario ==
    ScenarioRan
    => /\ found_tracks = << 1, 2 >>
       /\ not_found_tracks = << 3 >>
       /\ quota_used = 50 + ( 100 + 50 ) + 400
       /\ searchCalls = 5
       /\ addCalls = 2

\* The scenario has run to its end.
C21_Witness == ScenarioRan /\ quota_used = 600

(***************************************************************************)
(* C22.  Expiry clearing is exact: after clear_expired the cache holds     *)
(* precisely the entries that were less than seven days old, each          *)
(* unchanged, and every entry seven days old or older is gone; the file is *)
(* rewritten once when something was removed and not written when nothing  *)
(* was; clearing again at once changes nothing.                            *)
(***************************************************************************)
AgeBelowTTL(e) ==
    /\ e.timestamp[1] = "iso"
    /\ now - e.timestamp[2] < 7 * 24

ClearStep == pc = "main_ready" /\ pc' = "process"

C22_ClearExpiredExact ==
    [][ ClearStep =>
          /\ DOMAIN main_cache' = { k \in DOMAIN main_cache : AgeBelowTTL(main_cache[k]) }
          /\ \A k \in DOMAIN main_cache' : main_cache'[k] = main_cache[k]
          /\ IF DOMAIN main_cache' # DOMAIN main_cache
               THEN /\ Len(saves') = Len(saves) + 1
                    /\ file'.exists /\ file'.top = "object"
                    /\ load_error(file') = "none"
                    /\ load_cache(file') = main_cache'
               ELSE /\ saves' = saves
                    /\ file' = file
          /\ now' = now
          /\ clear_expired(main_cache') = main_cache' ]_vars

\* The three-entry file was cleared: the entry for "Anthem" stayed, the seven-day-old
\* and the unreadable one went, and the file was written once.
C22_Witness ==
    /\ pc = "process"
    /\ DOMAIN main_cache = { KeyOf(Track("A")) }
    /\ main_cache[KeyOf(Track("A"))] = OldEntry(isoformat(1))
    /\ DOMAIN file.data = { KeyOf(Track("A")) }
    /\ Len(saves) = 1
    /\ saves[1][1] = "clear_expired"

(***************************************************************************)
(* C23.  One winning call per key: in a run in which no entry expires, a   *)
(* key is written at most once and the video id under it stays the one     *)
(* written; once a song was found through the provider, every later song   *)
(* with the same normalised key is resolved from the cache, without a      *)
(* search call.                                                            *)
(***************************************************************************)
NoExpiry == \A n \in DOMAIN saves : saves[n][1] = "set"

SetsFor(key) == { n \in DOMAIN saves : saves[n][1] = "set" /\ saves[n][2] = key }

C23_OneWinningCall ==
    /\ []( NoExpiry
           => \A n \in DOMAIN saves :
                 /\ Cardinality(SetsFor(saves[n][2])) = 1
                 /\ saves[n][2] \in DOMAIN cache
                 /\ cache[saves[n][2]].video_id = saves[n][3] )
    /\ [][ ( /\ pc = "lookup" /\ pc' # "lookup"
             /\ NoExpiry'
             /\ SetsFor(NormalisedKey(track)) # {} )
           => /\ pc' = "matched"
              /\ issued' = << >>
              /\ searchCalls' = searchCalls
              /\ \A n \in SetsFor(NormalisedKey(track)) : video_id' = saves[n][3]
              /\ UNCHANGED << cache, file, saves >> ]_vars

\* "Hallelujah" twice: the first was searched and cached, the second came from the cache.
C23_Witness ==
    /\ setlist = << "B", "B" >>
    /\ i = 2
    /\ pc = "matched"
    /\ searchCalls = 1
    /\ issued = << >>
    /\ saves = << << "set", NormalisedKey(Track("B")), video_id >> >>

(***************************************************************************)
(* C24.  A failed playlist add: in a run that is not a preview, a song     *)
(* whose video was found but whose add failed goes to not_found_tracks and *)
(* not to found_tracks; the 50 units of the add and the units of its       *)
(* searches stay charged, and its cache entry is kept.  found_tracks       *)
(* therefore grows by a song exactly when the song's add succeeded.        *)
(***************************************************************************)
AddStep == pc = "matched" /\ addCalls' = addCalls + 1

C24_FailedAdd ==
    /\ [][ ( AddStep /\ outcome' = "HttpError" )
           => /\ not_found_tracks' = Append(not_found_tracks, i)
              /\ found_tracks' = found_tracks
              /\ quota_used' = quota_used + 50
              /\ quota_used' >= 100 * Len(issued) + 50
              /\ cache' = cache /\ file' = file
              /\ NormalisedKey(track) \in DOMAIN cache'
              /\ cache'[NormalisedKey(track)].video_id = video_id
              /\ i' = i + 1 ]_vars
    /\ [][ ( AddStep /\ outcome' = "added" )
           => /\ found_tracks' = Append(found_tracks, i)
              /\ not_found_tracks' = not_found_tracks ]_vars
    /\ [][ ( ~dry_run /\ found_tracks' # found_tracks )
           => AddStep /\ outcome' = "added" ]_vars
    /\ []( ~dry_run => \A n \in DOMAIN found_tracks :
                          \A k \in DOMAIN not_found_tracks :
                             found_tracks[n] # not_found_tracks[k] )

\* "Hallelujah" was searched once and cached, its add failed: the song is listed as
\* not found, 150 units are charged and the entry is in the cache.
C24_Witness ==
    /\ ~dry_run
    /\ setlist[1] = "B"
    /\ i = 2 /\ pc = "check"
    /\ outcome = "HttpError"
    /\ addCalls = 1 /\ searchCalls = 1
    /\ not_found_tracks = << 1 >>
    /\ found_tracks = << >>
    /\ quota_used = 150
    /\ NormalisedKey(Track("B")) \in DOMAIN cache

(***************************************************************************)
(* C25.  The run finishes with bounded work: whatever the search provider  *)
(* and the playlist answer, as long as they return or raise HttpError, the *)
(* track loop ends; it sends at most 4 searches and at most 1 playlist add *)
(* per song, and visits the songs once each, in setlist order.             *)
(***************************************************************************)
C25_Terminates ==
    /\ ( [](pc # "aborted") => <>(pc = "done") )
    /\ []( /\ Len(issued) <= 4
           /\ searchCalls <= 4 * ( i - 1 ) + Len(issued)
           /\ addCalls <= i
           /\ pc \notin { "create", "aborted" } => addCalls <= i - 1
           /\ i <= Len(setlist) + 1 )
    /\ [][ /\ i' = i \/ i' = i + 1
           /\ i' = i + 1 => pc' = "check" /\ pc \in { "search", "matched" }
           /\ ( pc' = "lookup" /\ pc # "lookup" ) => pc = "check" /\ i' = i
           /\ ( pc' = "check" /\ pc # "check" ) => pc = "create" \/ i' = i + 1
           /\ searchCalls' # searchCalls
                => /\ searchCalls' = searchCalls + 1
                   /\ issued' = Append(issued, query) \/ pc' = "aborted"
           /\ addCalls' # addCalls
                => /\ addCalls' = addCalls + 1
                   /\ i' = i + 1 \/ pc' = "aborted" ]_vars

\* A run over two songs reached its end after four searches for "Zoo", none of them
\* with a result, and one search and one failed add for "Hallelujah".
C25_Witness ==
    /\ pc = "done"
    /\ setlist = << "C", "B" >>
    /\ ~dry_run
    /\ i = 3
    /\ searchCalls = 5
    /\ addCalls = 1
    /\ outcome = "HttpError"
    /\ not_found_tracks = << 1, 2 >>

====
